---- MODULE Spec2Model ----
(***************************************************************************)
(* Model of cayene::Decoder (src/unnamed/part_000, the implementation of   *)
(* the Cayenne LPP decoder): the type registry data_types_, the            *)
(* registration call add_data_type, the scan loop of decode taken one      *)
(* iteration per step, and the byte-to-number conversions.                 *)
(*                                                                         *)
(* Numbers.  A byte is an integer in 0..255.  A std::size_t width s is     *)
(* represented by the integer congruent to s modulo 2^64 that lies in      *)
(* [-2^63, 2^63): the code reads a width only through                      *)
(* static_cast<std::ptrdiff_t>(size), whose value is exactly that integer, *)
(* so -1 stands for SIZE_MAX and -2 for SIZE_MAX - 1.  A double obtained   *)
(* as raw / scale is kept as the fraction [num |-> raw, den |-> scale].    *)
(***************************************************************************)
EXTENDS Integers, Sequences, FiniteSets, TLC

VARIABLES
    data_types_,      \* the registry: type id -> DataType
    pc,               \* "idle", "loop" (at the while test), "done", "crashed",
                      \* or, in the conversion harness, "call" / "returned"
    encoded_payload,  \* the buffer of the running decode call
    current_index,    \* the cursor, as an offset from encoded_payload.begin()
    decoded_json,     \* the result object under construction: key -> value
    result,           \* what decode returned (pc = "done")
    records           \* history: the records the loop has consumed

vars == <<data_types_, pc, encoded_payload, current_index, decoded_json,
          result, records>>

-----------------------------------------------------------------------------
(* Bounds and sample inputs                                                *)

\* Every buffer over ByteSample of length 0..MaxLen is decoded.
MaxLen == 4

\* 0x00 (built-in, width 1), 0x67 (built-in, width 2), 0x50 (a
\* caller-registered id), 0xFF (never registered).
ByteSample == {0, 103, 80, 255}

ChannelSample == {0, 9, 10, 255}

\* The add_data_type calls that are tried: <<type_id, name, size>>.  The
\* sizes -1 and -2 are SIZE_MAX and SIZE_MAX - 1 in the signed representation
\* of widths.
AddCalls ==
    { <<80, "Custom", 0>>, <<80, "Custom", 1>>, <<80, "Temperature", 2>>,
      <<80, "Custom", -1>>, <<80, "Custom", -2>>,
      <<81, "Custom", 1>>,
      <<103, "Custom", 1>>, <<0, "Other", 2>> }

-----------------------------------------------------------------------------
(* Fixed-width integer arithmetic                                          *)

RECURSIVE BitOr(_, _)
\* a | b on non-negative ints
BitOr(a, b) ==
    IF a = 0 THEN b
    ELSE IF b = 0 THEN a
    ELSE (IF a % 2 = 1 \/ b % 2 = 1 THEN 1 ELSE 0) + 2 * BitOr(a \div 2, b \div 2)

RECURSIVE BitAnd(_, _)
\* a & b on non-negative ints
BitAnd(a, b) ==
    IF a = 0 \/ b = 0 THEN 0
    ELSE (IF a % 2 = 1 /\ b % 2 = 1 THEN 1 ELSE 0) + 2 * BitAnd(a \div 2, b \div 2)

\* static_cast<uint16_t>(x)
ToUint16(x) == x % 65536

\* static_cast<int16_t>(x)
ToInt16(x) == ((x + 32768) % 65536) - 32768

\* A uint32_t is kept as two 16-bit halves, so that wrap-around modulo 2^32
\* is computed, not assumed.
U32(x) == [hi |-> (x \div 65536) % 65536, lo |-> x % 65536]

\* a - b that stops at zero instead of wrapping
SubU32_Saturating(a, b) ==
    IF a.hi < b.hi \/ (a.hi = b.hi /\ a.lo < b.lo)
    THEN [hi |-> 0, lo |-> 0]
    ELSE [hi |-> a.hi - b.hi - (IF a.lo < b.lo THEN 1 ELSE 0), lo |-> (a.lo - b.lo) % 65536]

\* a - b in uint32_t arithmetic
SubU32(a, b) ==
    LET borrow == IF a.lo < b.lo THEN 1 ELSE 0
    IN  [hi |-> (a.hi - b.hi - borrow) % 65536, lo |-> (a.lo - b.lo) % 65536]

\* static_cast<int32_t>(u) of a uint32_t
ToInt32(u) == IF u.hi >= 32768 THEN (u.hi - 65536) * 65536 + u.lo
              ELSE u.hi * 65536 + u.lo

At(data_span, i) == data_span[i + 1]

Subspan(data_span, offset, count) == SubSeq(data_span, offset + 1, offset + count)

bytes_to_uint16(data_span) ==
    ToUint16(BitOr(At(data_span, 0) * 256, At(data_span, 1)))

\* bytes_to_int16 without the sign correction
bytes_to_int16_NoSign(data_span) == bytes_to_uint16(data_span)

bytes_to_int16(data_span) ==
    LET unsigned_value == bytes_to_uint16(data_span)
    IN  IF unsigned_value > 32767
        THEN ToInt16(unsigned_value - 65536)
        ELSE ToInt16(unsigned_value)

bytes_to_uint24(data_span) ==
    BitAnd(BitOr(BitOr(At(data_span, 0) * 65536, At(data_span, 1) * 256),
                 At(data_span, 2)),
           16777215)

bytes_to_int24(data_span) ==
    LET unsigned_value == bytes_to_uint24(data_span)
    IN  IF unsigned_value > 8388607
        THEN ToInt32(SubU32(U32(unsigned_value), U32(16777216)))
        ELSE ToInt32(U32(unsigned_value))

-----------------------------------------------------------------------------
(* Decoded values                                                          *)

Unsigned(n) == [kind |-> "unsigned", num |-> n, den |-> 1]

\* the double raw / scale
Double(raw, scale) == [kind |-> "double", num |-> raw, den |-> scale]

decode_digital_input(data_span) == Unsigned(At(data_span, 0))

decode_digital_output(data_span) == Unsigned(At(data_span, 0))

decode_analog_input(data_span) == Double(bytes_to_int16(data_span), 100)

decode_analog_output(data_span) == Double(bytes_to_int16(data_span), 100)

decode_luminosity(data_span) == Unsigned(bytes_to_uint16(data_span))

decode_presence(data_span) == Unsigned(At(data_span, 0))

decode_temperature(data_span) == Double(bytes_to_int16(data_span), 10)

decode_humidity(data_span) == Double(bytes_to_uint16(data_span), 10)

decode_accelerometer(data_span) ==
    [kind |-> "object",
     x |-> Double(bytes_to_int16(Subspan(data_span, 0, 2)), 1000),
     y |-> Double(bytes_to_int16(Subspan(data_span, 2, 2)), 1000),
     z |-> Double(bytes_to_int16(Subspan(data_span, 4, 2)), 1000)]

decode_barometer(data_span) == Double(bytes_to_uint16(data_span), 10)

decode_gyrometer(data_span) == Double(bytes_to_int16(data_span), 100)

decode_gps(data_span) ==
    [kind |-> "object",
     latitude  |-> Double(bytes_to_int24(Subspan(data_span, 0, 3)), 10000),
     longitude |-> Double(bytes_to_int24(Subspan(data_span, 3, 3)), 10000),
     altitude  |-> Double(bytes_to_int24(Subspan(data_span, 6, 3)), 100)]

\* The type ids the switch of decode has a case for.
SwitchCases == {0, 1, 2, 3, 101, 102, 103, 104, 113, 115, 134, 136}

\* The switch of decode: the value stored for a built-in type id.
SwitchDecode(type_id, data_span) ==
    CASE type_id = 0   -> decode_digital_input(data_span)
      [] type_id = 1   -> decode_digital_output(data_span)
      [] type_id = 2   -> decode_analog_input(data_span)
      [] type_id = 3   -> decode_analog_output(data_span)
      [] type_id = 101 -> decode_luminosity(data_span)
      [] type_id = 102 -> decode_presence(data_span)
      [] type_id = 103 -> decode_temperature(data_span)
      [] type_id = 104 -> decode_humidity(data_span)
      [] type_id = 113 -> decode_accelerometer(data_span)
      [] type_id = 115 -> decode_barometer(data_span)
      [] type_id = 134 -> decode_gyrometer(data_span)
      [] type_id = 136 -> decode_gps(data_span)

\* data_type.decoder_function of a caller-registered type, applied to a span
\* that lies inside the buffer: some value that is a function of the bytes.
decoder_function(data_span) == [kind |-> "custom", bytes |-> data_span]

\* What a decoder function yields on a span that reaches outside the buffer.
Indeterminate == [kind |-> "indeterminate"]

-----------------------------------------------------------------------------
(* Keys                                                                    *)

Digit(d) ==
    CASE d = 0 -> "0" [] d = 1 -> "1" [] d = 2 -> "2" [] d = 3 -> "3"
      [] d = 4 -> "4" [] d = 5 -> "5" [] d = 6 -> "6" [] d = 7 -> "7"
      [] d = 8 -> "8" [] d = 9 -> "9"

RECURSIVE to_string(_)
\* std::to_string of a uint8_t promoted to int: decimal, no padding
to_string(n) == IF n < 10 THEN Digit(n) ELSE to_string(n \div 10) \o Digit(n % 10)

\* data_type.name + "_" + std::to_string(channel)
Key(name, channel) == name \o "_" \o to_string(channel)

\* an insert that keeps the entry a key already has
JsonSet_KeepFirst(json, key, value) ==
    [k \in DOMAIN json \cup {key} |-> IF k \in DOMAIN json THEN json[k] ELSE value]

\* decoded_json[key] = value
JsonSet(json, key, value) ==
    [k \in DOMAIN json \cup {key} |-> IF k = key THEN value ELSE json[k]]

\* Json::object()
JsonObject == <<>>

-----------------------------------------------------------------------------
(* The registry                                                            *)

\* DataType(type_id, name, size): a caller-registered descriptor
DataType(type_id, name, size) ==
    [type_id |-> type_id, name |-> name, size |-> size, standard |-> FALSE]

StandardType(type_id, name, size) ==
    [type_id |-> type_id, name |-> name, size |-> size, standard |-> TRUE]

\* definitions::get_v1_standard_data_types()
get_v1_standard_data_types ==
    { StandardType(0, "Digital Input", 1),
      StandardType(1, "Digital Output", 1),
      StandardType(2, "Analog Input", 2),
      StandardType(3, "Analog Output", 2),
      StandardType(101, "Luminosity", 2),
      StandardType(102, "Presence", 1),
      StandardType(103, "Temperature", 2),
      StandardType(104, "Humidity", 2),
      StandardType(113, "Accelerometer", 6),
      StandardType(115, "Barometer", 2),
      StandardType(134, "Gyrometer", 2),
      StandardType(136, "GPS", 9) }

\* data_types_.contains(type_id)
Contains(registry, type_id) == type_id \in DOMAIN registry

\* data_types_.emplace(type_id, data_type): inserts unless the key is present
Emplace(registry, type_id, data_type) ==
    IF Contains(registry, type_id) THEN registry
    ELSE [k \in DOMAIN registry \cup {type_id} |->
            IF k = type_id THEN data_type ELSE registry[k]]

\* Decoder::Decoder(): the registry holding the standard data types
Constructed ==
    [t \in {d.type_id : d \in get_v1_standard_data_types} |->
        CHOOSE d \in get_v1_standard_data_types : d.type_id = t]

\* add_data_type that overwrites the entry of a registered id
AddedTo_Overwrite(registry, type_id, name, size) ==
    [k \in DOMAIN registry \cup {type_id} |->
        IF k = type_id THEN [type_id |-> type_id, name |-> name, size |-> size,
                             standard |-> FALSE]
        ELSE registry[k]]

\* The body of add_data_type, as the registry it leaves.
AddedTo(registry, type_id, name, size) ==
    IF ~Contains(registry, type_id)
    THEN Emplace(registry, type_id, DataType(type_id, name, size))
    ELSE registry

-----------------------------------------------------------------------------
(* Input buffers                                                           *)

SeqsUpTo(S, n) == UNION {[1..k -> S] : k \in 0..n}

Width1Values == {<<0>>, <<1>>, <<255>>}

\* 0x0000, 0x7FFF, 0x8000, 0xFFFF
Int16Edges == {<<0, 0>>, <<127, 255>>, <<128, 0>>, <<255, 255>>}

\* the edges, and 0x0190 (400) and 0xFF9C (-100) of the tests
Width2Values == Int16Edges \cup {<<1, 144>>, <<255, 156>>}

\* 0x000000, 0x7FFFFF, 0x800000, 0xFFFFFF
Int24Edges == {<<0, 0, 0>>, <<127, 255, 255>>, <<128, 0, 0>>, <<255, 255, 255>>}

Width6Values == {a \o b \o c : a \in Int16Edges, b \in Int16Edges, c \in Int16Edges}

Width9Values == {a \o b \o c : a \in Int24Edges, b \in Int24Edges, c \in Int24Edges}

ValuesOfWidth(w) ==
    CASE w = 0 -> {<<>>}
      [] w = 1 -> Width1Values
      [] w = 2 -> Width2Values
      [] w = 6 -> {a \o b \o a : a \in Int16Edges, b \in Int16Edges}
      [] w = 9 -> {a \o b \o a : a \in Int24Edges, b \in Int24Edges}

\* One complete record of every built-in type, on every sampled channel.
StandardRecords ==
    UNION {{<<c, d.type_id>> \o v : c \in ChannelSample, v \in ValuesOfWidth(d.size)} :
              d \in get_v1_standard_data_types}

\* Headers of the ids add_data_type is tried with, followed by 0, 1 or 2 bytes.
CustomRecords ==
    {<<c, t>> \o v : c \in ChannelSample, t \in {80, 81},
                     v \in ValuesOfWidth(0) \cup Width1Values \cup Width2Values}

\* Short records on two channels, to be concatenated.
PairRecords ==
    {<<c, t>> \o v : c \in {1, 2}, t \in {103, 80}, v \in {<<0, 0>>, <<1, 144>>}}
    \cup {<<c, 0>> \o v : c \in {1, 2}, v \in {<<0>>, <<1>>}}

RecordPairs == {a \o b : a \in PairRecords, b \in PairRecords}

RecordTriples ==
    {a \o b \o c : a \in {<<1, 0, 0>>, <<1, 0, 1>>, <<2, 0, 1>>},
                   b \in {<<1, 0, 0>>, <<1, 0, 1>>, <<1, 1, 1>>},
                   c \in {<<1, 0, 0>>, <<1, 0, 1>>, <<2, 0, 0>>}}

\* a record sequence cut short by one byte, or followed by one more byte
Damaged(S) ==
    {SubSeq(p, 1, Len(p) - 1) : p \in S} \cup {p \o <<b>> : p \in S, b \in {0, 255}}

Payloads ==
    SeqsUpTo(ByteSample, MaxLen)
    \cup StandardRecords \cup CustomRecords \cup RecordPairs \cup RecordTriples
    \cup Damaged(PairRecords \cup RecordPairs)

-----------------------------------------------------------------------------
(* Results                                                                 *)

\* std::unexpected(error)
Unexpected(error) == [ok |-> FALSE, error |-> error, value |-> JsonObject]

\* a returned Json
Expected(json) == [ok |-> TRUE, error |-> "None", value |-> json]

\* no call has returned
NoResult == [ok |-> FALSE, error |-> "None", value |-> JsonObject]

-----------------------------------------------------------------------------
(* Decoder::decode                                                         *)

\* a while test that wants two bytes after the header
LoopTest_OneMore(index, end) == index + 3 < end

\* the while test: current_index + 2 < encoded_payload.end()
LoopTest(index, end) == index + 2 < end

\* current_index + static_cast<std::ptrdiff_t>(data_type.size) > encoded_payload.end()
ExceedsEnd(index, size, end) == index + size > end

\* current_index += static_cast<std::ptrdiff_t>(data_type.size)
Advance(index, size) == index + size

\* an empty test that also takes a single byte
IsEmpty_UpToOne(payload) == Len(payload) <= 1

\* encoded_payload.size() == 0
IsEmpty(payload) == Len(payload) = 0

\* the test after the loop: current_index < encoded_payload.end()
BytesLeft(index, end) == index < end

\* every registered type taken for a standard one
IsStandard_Always(data_type) == TRUE

\* data_type.standard
IsStandard(data_type) == data_type.standard

\* The channel and type id read by *(current_index++), twice.
Channel == encoded_payload[current_index + 1]
TypeId == encoded_payload[current_index + 2]
AfterHeader == current_index + 2
End == Len(encoded_payload)

\* std::span<uint8_t>(current_index, data_type.size), inside the buffer
ValueSpan(size) == SubSeq(encoded_payload, AfterHeader + 1, AfterHeader + size)

\* whether that span lies inside the buffer
SpanInBuffer(size) == size >= 0 /\ AfterHeader + size <= End

Consumed(via) ==
    [offset |-> current_index, channel |-> Channel, type_id |-> TypeId, via |-> via]

Init ==
    /\ data_types_ = Constructed
    /\ pc = "idle"
    /\ encoded_payload = <<>>
    /\ current_index = 0
    /\ decoded_json = JsonObject
    /\ result = NoResult
    /\ records = {}

\* decode is entered: the empty test, then the cursor and the result object.
DecodeCall(payload) ==
    /\ pc = "idle"
    /\ encoded_payload' = payload
    /\ current_index' = 0
    /\ decoded_json' = JsonObject
    /\ records' = {}
    /\ IF IsEmpty(payload)
       THEN pc' = "done" /\ result' = Unexpected("PayloadEmpty")
       ELSE pc' = "loop" /\ result' = NoResult
    /\ UNCHANGED data_types_

\* An iteration that reads a type id the registry does not hold.
IterUnknownType ==
    /\ pc = "loop"
    /\ LoopTest(current_index, End)
    /\ ~Contains(data_types_, TypeId)
    /\ pc' = "done"
    /\ result' = Unexpected("UnkwownDataType")
    /\ current_index' = AfterHeader
    /\ UNCHANGED <<data_types_, encoded_payload, decoded_json, records>>

\* An iteration whose record does not fit in the rest of the buffer.
IterBadFormat ==
    /\ pc = "loop"
    /\ LoopTest(current_index, End)
    /\ Contains(data_types_, TypeId)
    /\ ExceedsEnd(AfterHeader, data_types_[TypeId].size, End)
    /\ pc' = "done"
    /\ result' = Unexpected("BadPayloadFormat")
    /\ current_index' = AfterHeader
    /\ UNCHANGED <<data_types_, encoded_payload, decoded_json, records>>

\* An iteration on a caller-registered type: its own decoder function, then
\* continue.  A span that reaches outside the buffer is undefined behaviour:
\* the function yields some value, or the process dies.
IterCustom ==
    /\ pc = "loop"
    /\ LoopTest(current_index, End)
    /\ Contains(data_types_, TypeId)
    /\ ~ExceedsEnd(AfterHeader, data_types_[TypeId].size, End)
    /\ ~IsStandard(data_types_[TypeId])
    /\ LET data_type == data_types_[TypeId]
           key == Key(data_type.name, Channel)
       IN  \/ /\ SpanInBuffer(data_type.size)
              /\ decoded_json' =
                     JsonSet(decoded_json, key, decoder_function(ValueSpan(data_type.size)))
              /\ current_index' = Advance(AfterHeader, data_type.size)
              /\ records' = records \cup {Consumed("decoder_function")}
              /\ UNCHANGED <<pc, result>>
           \/ /\ ~SpanInBuffer(data_type.size)
              /\ decoded_json' = JsonSet(decoded_json, key, Indeterminate)
              /\ current_index' = Advance(AfterHeader, data_type.size)
              /\ records' = records \cup {Consumed("decoder_function")}
              /\ UNCHANGED <<pc, result>>
           \/ /\ ~SpanInBuffer(data_type.size)
              /\ pc' = "crashed"
              /\ current_index' = AfterHeader
              /\ UNCHANGED <<decoded_json, records, result>>
    /\ UNCHANGED <<data_types_, encoded_payload>>

\* An iteration on a standard type: the switch on the type id.
IterStandard ==
    /\ pc = "loop"
    /\ LoopTest(current_index, End)
    /\ Contains(data_types_, TypeId)
    /\ ~ExceedsEnd(AfterHeader, data_types_[TypeId].size, End)
    /\ IsStandard(data_types_[TypeId])
    /\ LET data_type == data_types_[TypeId]
       IN  IF TypeId \in SwitchCases
           THEN /\ decoded_json' =
                       JsonSet(decoded_json, Key(data_type.name, Channel),
                               SwitchDecode(TypeId, ValueSpan(data_type.size)))
                /\ current_index' = Advance(AfterHeader, data_type.size)
                /\ records' = records \cup {Consumed("switch")}
                /\ UNCHANGED <<pc, result>>
           ELSE /\ pc' = "done"
                /\ result' = Unexpected("UnkwownDataType")
                /\ current_index' = AfterHeader
                /\ UNCHANGED <<decoded_json, records>>
    /\ UNCHANGED <<data_types_, encoded_payload>>

\* The loop has ended: bytes left over, or the result.
LoopExit ==
    /\ pc = "loop"
    /\ ~LoopTest(current_index, End)
    /\ pc' = "done"
    /\ result' = IF BytesLeft(current_index, End)
                 THEN Unexpected("BadPayloadFormat")
                 ELSE Expected(decoded_json)
    /\ UNCHANGED <<data_types_, encoded_payload, current_index, decoded_json, records>>

\* The caller has the result; the decoder is ready for its next call.
Return ==
    /\ pc = "done"
    /\ pc' = "idle"
    /\ encoded_payload' = <<>>
    /\ current_index' = 0
    /\ decoded_json' = JsonObject
    /\ result' = NoResult
    /\ records' = {}
    /\ UNCHANGED data_types_

\* Decoder::add_data_type
AddDataType(type_id, name, size) ==
    /\ pc = "idle"
    /\ data_types_' = AddedTo(data_types_, type_id, name, size)
    /\ UNCHANGED <<pc, encoded_payload, current_index, decoded_json, result, records>>

Next ==
    \/ \E payload \in Payloads : DecodeCall(payload)
    \/ IterUnknownType
    \/ IterBadFormat
    \/ IterCustom
    \/ IterStandard
    \/ LoopExit
    \/ Return
    \/ \E call \in AddCalls : AddDataType(call[1], call[2], call[3])

Spec == Init /\ [][Next]_vars

-----------------------------------------------------------------------------
(* The conversions on their own: a span is handed to one conversion        *)
(* function, which returns.                                                *)

\* first byte any, the others at the edges of the byte range
EdgeBytes == {0, 1, 127, 128, 255}

ConvSpans ==
    {<<a, b>> : a \in 0..255, b \in EdgeBytes \cup {144, 156}}
    \cup {<<a, b, c>> : a \in 0..255, b \in EdgeBytes, c \in EdgeBytes}
    \cup Width6Values \cup Width9Values

ConvInit ==
    /\ data_types_ = Constructed
    /\ pc = "call"
    /\ encoded_payload \in ConvSpans
    /\ current_index = 0
    /\ decoded_json = JsonObject
    /\ result = NoResult
    /\ records = {}

Returned(value) ==
    /\ pc' = "returned"
    /\ result' = [ok |-> TRUE, error |-> "None", value |-> value]
    /\ UNCHANGED <<data_types_, encoded_payload, current_index, decoded_json, records>>

CallBytesToInt16 ==
    pc = "call" /\ Len(encoded_payload) = 2 /\ Returned(bytes_to_int16(encoded_payload))

CallBytesToInt24 ==
    pc = "call" /\ Len(encoded_payload) = 3 /\ Returned(bytes_to_int24(encoded_payload))

CallDecodeAccelerometer ==
    pc = "call" /\ Len(encoded_payload) = 6 /\ Returned(decode_accelerometer(encoded_payload))

CallDecodeGps ==
    pc = "call" /\ Len(encoded_payload) = 9 /\ Returned(decode_gps(encoded_payload))

ConvNext ==
    \/ CallBytesToInt16
    \/ CallBytesToInt24
    \/ CallDecodeAccelerometer
    \/ CallDecodeGps

ConvSpec == ConvInit /\ [][ConvNext]_vars

-----------------------------------------------------------------------------
(* Properties                                                              *)

UnknownDataType == Unexpected("UnkwownDataType")
BadPayloadFormat == Unexpected("BadPayloadFormat")
PayloadEmpty == Unexpected("PayloadEmpty")

Registered == DOMAIN data_types_

\* A width that no buffer can hold: its representative is negative, that is,
\* the width is 2^63 or more.
Huge(size) == size < 0

\* the value bytes of a one-record buffer
ValueBytes(payload) == SubSeq(payload, 3, Len(payload))

\* a result object with one entry
OneEntry(key, value) == [k \in {key} |-> value]

\* the big-endian unsigned reading of 2 or 3 bytes
BigEndian16(v) == 256 * v[1] + v[2]
BigEndian24(v) == 65536 * v[1] + 256 * v[2] + v[3]

\* two's complement
Signed16(u) == IF u <= 32767 THEN u ELSE u - 65536
Signed24(u) == IF u <= 8388607 THEN u ELSE u - 16777216

(* C1 as stated: whenever the scan stands at a record header (two bytes are   *)
(* there to be read) whose type id is not registered, decode returns          *)
(* UnknownDataType, however many bytes follow the header, none included.      *)
C1_UnknownAtAnyHeader ==
    [][(pc = "loop" /\ current_index + 2 <= End /\ TypeId \notin Registered)
        => (pc' = "done" /\ result' = UnknownDataType)]_vars

(* C1, amended: whenever the scan stands at a record header whose type id is  *)
(* not registered and at least one byte follows the header, decode returns    *)
(* UnknownDataType, wherever the header is and whatever the registry holds.   *)
C1_UnknownAtHeaderBeforeData ==
    [][(pc = "loop" /\ current_index + 2 < End /\ TypeId \notin Registered)
        => (pc' = "done" /\ result' = UnknownDataType)]_vars

\* UnknownDataType returned for a header that is not the first record, with a
\* registry that has been extended.
C1_Witness ==
    /\ pc = "done"
    /\ result = UnknownDataType
    /\ records # {}
    /\ data_types_ # Constructed

RECURSIVE LastRecordOverruns(_, _, _)
\* Reading payload from offset i as records framed by the registered widths:
\* whether a record of a registered type is met whose width is more than the
\* bytes after its header.
LastRecordOverruns(payload, registry, i) ==
    IF i + 2 > Len(payload) \/ payload[i + 2] \notin DOMAIN registry THEN FALSE
    ELSE LET size == registry[payload[i + 2]].size
         IN  IF Huge(size) \/ i + 2 + size > Len(payload) THEN TRUE
             ELSE LastRecordOverruns(payload, registry, i + 2 + size)

(* C2 as stated: decode returns BadPayloadFormat for a buffer of length 1,    *)
(* and for a buffer whose last record is of a registered type whose width is  *)
(* more than the bytes that remain after the record's header.                 *)
C2_TooShortIsBadFormat ==
    (/\ pc = "done"
     /\ \/ Len(encoded_payload) = 1
        \/ LastRecordOverruns(encoded_payload, data_types_, 0))
    => result = BadPayloadFormat

\* the record the loop consumed last, and the offset just after it
LastRecord == CHOOSE r \in records : \A q \in records : q.offset <= r.offset
StopOffset ==
    IF records = {} THEN 0
    ELSE LastRecord.offset + 2 + data_types_[LastRecord.type_id].size

RECURSIVE SumOfRecords(_)
\* the sum over the records of 2 + the registered width
SumOfRecords(S) ==
    IF S = {} THEN 0
    ELSE LET r == CHOOSE x \in S : TRUE
         IN  2 + data_types_[r.type_id].size + SumOfRecords(S \ {r})

(* C3 as stated: the cursor is never past the end of the buffer; when decode  *)
(* returns success the cursor is at the end and the widths of the consumed    *)
(* records, plus 2 for each, add up to the buffer length; when the scan stops *)
(* after its last complete record with bytes left, decode returns             *)
(* BadPayloadFormat.                                                          *)
C3_ExactPartition ==
    /\ current_index <= End
    /\ (pc = "done" /\ result.ok) =>
          /\ current_index = End
          /\ \A r \in records : ~Huge(data_types_[r.type_id].size)
          /\ SumOfRecords(records) = End
    /\ (pc = "done" /\ current_index = StopOffset /\ current_index < End) =>
          result = BadPayloadFormat

\* the table of the built-in types: id, name, width
BuiltIn ==
    { <<0, "Digital Input", 1>>, <<1, "Digital Output", 1>>,
      <<2, "Analog Input", 2>>, <<3, "Analog Output", 2>>,
      <<101, "Luminosity", 2>>, <<102, "Presence", 1>>,
      <<103, "Temperature", 2>>, <<104, "Humidity", 2>>,
      <<113, "Accelerometer", 6>>, <<115, "Barometer", 2>>,
      <<134, "Gyrometer", 2>>, <<136, "GPS", 9>> }

\* the conversion the table gives for a built-in type id
TableValue(t, v) ==
    CASE t \in {0, 1, 102} -> Unsigned(v[1])
      [] t = 101 -> Unsigned(BigEndian16(v))
      [] t \in {104, 115} -> Double(BigEndian16(v), 10)
      [] t = 103 -> Double(Signed16(BigEndian16(v)), 10)
      [] t \in {2, 3, 134} -> Double(Signed16(BigEndian16(v)), 100)
      [] t = 113 ->
            [kind |-> "object",
             x |-> Double(Signed16(BigEndian16(SubSeq(v, 1, 2))), 1000),
             y |-> Double(Signed16(BigEndian16(SubSeq(v, 3, 4))), 1000),
             z |-> Double(Signed16(BigEndian16(SubSeq(v, 5, 6))), 1000)]
      [] t = 136 ->
            [kind |-> "object",
             latitude  |-> Double(Signed24(BigEndian24(SubSeq(v, 1, 3))), 10000),
             longitude |-> Double(Signed24(BigEndian24(SubSeq(v, 4, 6))), 10000),
             altitude  |-> Double(Signed24(BigEndian24(SubSeq(v, 7, 9))), 100)]

(* C4: a buffer that is one record of a built-in type, [c, t] followed by as  *)
(* many bytes as the width of t, decodes successfully to exactly one entry,   *)
(* under the key "<name of t>_<decimal c>", whose value is the conversion the *)
(* table gives for t, in every registry state.                                *)
C4_SingleBuiltInRecord ==
    (pc = "done" /\ Len(encoded_payload) >= 2) =>
        \A b \in BuiltIn :
            (encoded_payload[2] = b[1] /\ Len(encoded_payload) = 2 + b[3]) =>
                result = Expected(OneEntry(b[2] \o "_" \o ToString(encoded_payload[1]),
                                           TableValue(b[1], ValueBytes(encoded_payload))))

\* Temperature 0x8000 on channel 255 has given -3276.8, with a registry on
\* which add_data_type has been called.
C4_Witness ==
    /\ pc = "done"
    /\ encoded_payload = <<255, 103, 128, 0>>
    /\ result = Expected(OneEntry("Temperature_255", Double(-32768, 10)))
    /\ data_types_ # Constructed

\* what one add_data_type call must leave, by the claim
FirstWins(registry, type_id, name, size) ==
    LET after == AddedTo(registry, type_id, name, size)
    IN  IF type_id \in DOMAIN registry
        THEN after = registry
        ELSE /\ DOMAIN after = DOMAIN registry \cup {type_id}
             /\ after[type_id] = [type_id |-> type_id, name |-> name, size |-> size,
                                  standard |-> FALSE]
             /\ \A k \in DOMAIN registry : after[k] = registry[k]

(* C5: the twelve built-in entries are in the registry as constructed, always;*)
(* an entry, once in the registry, never changes and is never removed; a step *)
(* adds at most one entry; and in every registry reached, an add_data_type    *)
(* call with a registered id would leave the registry as it is, and one with  *)
(* an unused id would add that entry and change no other.                     *)
C5_FirstRegistrationWins ==
    /\ [](/\ \A b \in BuiltIn :
                /\ b[1] \in Registered
                /\ data_types_[b[1]] = [type_id |-> b[1], name |-> b[2],
                                        size |-> b[3], standard |-> TRUE]
          /\ \A call \in AddCalls : FirstWins(data_types_, call[1], call[2], call[3]))
    /\ [][/\ \A t \in Registered : t \in DOMAIN data_types_' /\ data_types_'[t] = data_types_[t]
          /\ Cardinality(DOMAIN data_types_') <= Cardinality(Registered) + 1]_vars

\* both caller ids are registered, 0x50 under the first of its descriptors to
\* arrive
C5_Witness ==
    /\ {80, 81} \subseteq Registered
    /\ data_types_[80].name = "Temperature"
    /\ data_types_[81].size = 1

\* the one record a buffer [c, t] ++ v is, when t is a caller-registered type
OneCustomRecord(payload) ==
    /\ result = Expected(OneEntry(data_types_[payload[2]].name \o "_" \o ToString(payload[1]),
                                  decoder_function(ValueBytes(payload))))
    /\ records = {[offset |-> 0, channel |-> payload[1], type_id |-> payload[2],
                   via |-> "decoder_function"]}
    /\ current_index = Len(payload)

(* C6 as stated: for every width w, a buffer [c, t] followed by exactly w     *)
(* bytes, with t caller-registered with width w, is one record, decoded by    *)
(* the type's own function and not by the switch, stored under                *)
(* "<name>_<decimal c>"; with t not registered the same buffer yields         *)
(* UnknownDataType; and UnknownDataType is never returned at a header whose   *)
(* type id is registered.                                                     *)
C6_CustomTypeKnown ==
    (pc = "done" /\ Len(encoded_payload) >= 2) =>
        LET t == encoded_payload[2]
        IN  /\ (/\ t \in Registered
                /\ ~data_types_[t].standard
                /\ Len(encoded_payload) = 2 + data_types_[t].size)
               => OneCustomRecord(encoded_payload)
            /\ t \notin Registered => result = UnknownDataType
            /\ result = UnknownDataType => encoded_payload[current_index] \notin Registered

(* C6, amended: the same for every width w >= 1, that is, for buffers of at   *)
(* least 3 bytes.                                                             *)
C6_CustomTypeKnownFromWidth1 ==
    (pc = "done" /\ Len(encoded_payload) >= 3) =>
        LET t == encoded_payload[2]
        IN  /\ (/\ t \in Registered
                /\ ~data_types_[t].standard
                /\ Len(encoded_payload) = 2 + data_types_[t].size)
               => OneCustomRecord(encoded_payload)
            /\ t \notin Registered => result = UnknownDataType
            /\ result = UnknownDataType => encoded_payload[current_index] \notin Registered

\* 0x50 registered as ("Temperature", 2): [10, 0x50, 0x01, 0x90] is one record
C6_Witness ==
    /\ pc = "done"
    /\ encoded_payload = <<10, 80, 1, 144>>
    /\ 80 \in Registered
    /\ result = Expected(OneEntry("Temperature_10", decoder_function(<<1, 144>>)))

(* C7: decode returns PayloadEmpty for the empty buffer, in every registry    *)
(* state, and for no other buffer.                                            *)
C7_EmptyIffPayloadEmpty ==
    pc = "done" => (Len(encoded_payload) = 0 <=> result = PayloadEmpty)

\* the empty buffer refused by a decoder whose registry has been extended
C7_Witness ==
    /\ pc = "done"
    /\ encoded_payload = <<>>
    /\ result = PayloadEmpty
    /\ data_types_ # Constructed

(* C8 as stated: in every loop iteration that does not return, the cursor     *)
(* moves forward by at least 2, whatever the widths in the registry.          *)
C8_CursorAdvances ==
    [][(pc = "loop" /\ pc' = "loop") => current_index' >= current_index + 2]_vars

\* the key and the value of a consumed record
RecordKey(r) == data_types_[r.type_id].name \o "_" \o ToString(r.channel)
RecordValue(r) ==
    LET data_type == data_types_[r.type_id]
        first == r.offset + 3
        last == r.offset + 2 + data_type.size
    IN  IF data_type.standard
        THEN SwitchDecode(r.type_id, SubSeq(encoded_payload, first, last))
        ELSE IF ~Huge(data_type.size) /\ last <= Len(encoded_payload)
             THEN decoder_function(SubSeq(encoded_payload, first, last))
             ELSE Indeterminate

\* the last record, in buffer order, that gives key k
LastWithKey(k) ==
    CHOOSE r \in records :
        /\ RecordKey(r) = k
        /\ \A q \in records : RecordKey(q) = k => q.offset <= r.offset

(* C9: when decode returns success, the keys of the result are exactly the    *)
(* keys of the consumed records, each key holds the value decoded from the    *)
(* last record, in buffer order, that gives it, and there are no more keys    *)
(* than records.                                                              *)
C9_LastRecordWins ==
    (pc = "done" /\ result.ok) =>
        /\ DOMAIN result.value = {RecordKey(r) : r \in records}
        /\ \A k \in DOMAIN result.value : result.value[k] = RecordValue(LastWithKey(k))
        /\ Cardinality(DOMAIN result.value) <= Cardinality(records)

\* success with two records of different type ids under one key, whose values
\* differ
C9_Witness ==
    /\ pc = "done"
    /\ result.ok
    /\ \E r1, r2 \in records :
          /\ r1.offset < r2.offset
          /\ r1.type_id # r2.type_id
          /\ RecordKey(r1) = RecordKey(r2)
          /\ RecordValue(r1) # RecordValue(r2)
          /\ result.value[RecordKey(r1)] = RecordValue(r2)

\* bytes_to_int24's subtraction, done in 32 bits, has wrapped
Wrapped24(u) == SubU32(U32(u), U32(16777216)).hi >= 32768

(* C10: bytes_to_int16 of two bytes is the two's complement reading of        *)
(* u = 256*b0 + b1 and lies in -32768..32767; bytes_to_int24 of three bytes   *)
(* is that of u = 65536*b0 + 256*b1 + b2 and lies in -8388608..8388607, the   *)
(* 32-bit subtraction wrapping whenever u > 0x7FFFFF; the accelerometer       *)
(* fields are the signed readings of the three 2-byte groups and the GPS      *)
(* fields those of the three 3-byte groups.                                   *)
C10_SignedReadings ==
    pc = "returned" =>
        LET v == encoded_payload
        IN  /\ Len(v) = 2 =>
                  /\ result.value = Signed16(BigEndian16(v))
                  /\ result.value \in -32768..32767
            /\ Len(v) = 3 =>
                  /\ result.value = Signed24(BigEndian24(v))
                  /\ result.value \in -8388608..8388607
                  /\ BigEndian24(v) > 8388607 => Wrapped24(BigEndian24(v))
            /\ Len(v) = 6 =>
                  /\ result.value.x.num = Signed16(BigEndian16(SubSeq(v, 1, 2)))
                  /\ result.value.y.num = Signed16(BigEndian16(SubSeq(v, 3, 4)))
                  /\ result.value.z.num = Signed16(BigEndian16(SubSeq(v, 5, 6)))
            /\ Len(v) = 9 =>
                  /\ result.value.latitude.num = Signed24(BigEndian24(SubSeq(v, 1, 3)))
                  /\ result.value.longitude.num = Signed24(BigEndian24(SubSeq(v, 4, 6)))
                  /\ result.value.altitude.num = Signed24(BigEndian24(SubSeq(v, 7, 9)))

\* 0x800000 has been read as -8388608
C10_Witness ==
    /\ pc = "returned"
    /\ encoded_payload = <<128, 0, 0>>
    /\ result.value = -8388608


-----------------------------------------------------------------------------
(* decode against a scan of the buffer written from its description.       *)

\* what decode returned: success, or the error
Outcome == IF result.ok THEN "success" ELSE result.error

RECURSIVE ReferenceScan(_, _, _)
\* The scan from offset: while more than 2 bytes remain, read the header; an
\* unregistered type id ends it, as does a width that is more than the bytes
\* after the header (a width of 2^63 or more is more than any buffer);
\* otherwise the width is consumed.  When the scan stops, a byte that remains
\* is an error.
ReferenceScan(payload, registry, offset) ==
    IF offset + 2 < Len(payload)
    THEN LET type_id == payload[offset + 2]
         IN  IF type_id \notin DOMAIN registry THEN "UnkwownDataType"
             ELSE LET size == registry[type_id].size
                  IN  IF Huge(size) \/ Len(payload) - (offset + 2) < size
                      THEN "BadPayloadFormat"
                      ELSE ReferenceScan(payload, registry, offset + 2 + size)
    ELSE IF offset < Len(payload) THEN "BadPayloadFormat" ELSE "success"

RECURSIVE CompleteRecords(_, _, _)
\* whether payload from offset on is a concatenation of complete records of
\* registered types, each of at least one value byte
CompleteRecords(payload, registry, offset) ==
    \/ offset = Len(payload)
    \/ /\ offset + 2 < Len(payload)
       /\ payload[offset + 2] \in DOMAIN registry
       /\ LET size == registry[payload[offset + 2]].size
          IN  /\ ~Huge(size)
              /\ size >= 1
              /\ offset + 2 + size <= Len(payload)
              /\ CompleteRecords(payload, registry, offset + 2 + size)

\* every registered width is at least 1
WidthsAtLeast1(registry) ==
    \A t \in DOMAIN registry : Huge(registry[t].size) \/ registry[t].size >= 1

(* C11 as stated: for every non-empty buffer and every registry, what decode  *)
(* returns is what the reference scan returns; and when every registered      *)
(* width is at least 1, decode succeeds exactly when the buffer is a          *)
(* concatenation of complete records of registered types.                     *)
C11_DecodeIsReferenceScan ==
    (pc = "done" /\ encoded_payload # <<>>) =>
        /\ Outcome = ReferenceScan(encoded_payload, data_types_, 0)
        /\ WidthsAtLeast1(data_types_) =>
              (result.ok <=> CompleteRecords(encoded_payload, data_types_, 0))

\* no registered width is 2^63 or more
WidthsBelowCastLimit(registry) == \A t \in DOMAIN registry : ~Huge(registry[t].size)

\* The same comparison over the registries whose widths the signed cast of
\* the bounds test keeps: there decode and the reference scan agree.
DecodeIsReferenceScanBelowCastLimit ==
    (pc = "done" /\ encoded_payload # <<>> /\ WidthsBelowCastLimit(data_types_)) =>
        /\ Outcome = ReferenceScan(encoded_payload, data_types_, 0)
        /\ WidthsAtLeast1(data_types_) =>
              (result.ok <=> CompleteRecords(encoded_payload, data_types_, 0))

\* a header with exactly 2 bytes remaining was left unread after a record
HeaderLeftUnread ==
    /\ pc = "done"
    /\ records # {}
    /\ current_index + 2 = End
    /\ result = BadPayloadFormat
    /\ WidthsBelowCastLimit(data_types_)

====
